---- MODULE Spec2Model ----
(***************************************************************************)
(* idlewatcher (src/src/main.rs): the polling loop of main(), the callback *)
(* way_idle_cb() and the staged connect of wayland_connect().              *)
(*                                                                         *)
(* One iteration of the `loop` of main() (a "tick") is the sequence of     *)
(* steps  sample, scan, service, recv, dispatch, [resolve, open, roundtrip, *)
(* bind, subscribe, assign], fusion, sleep.  The program is single         *)
(* threaded, so pc is the position of the one thread.  Everything the      *)
(* operating system, the compositor or the client library decides (file    *)
(* contents, I/O results, events) is an input drawn with \E in the step    *)
(* that reads it.                                                          *)
(*                                                                         *)
(* Integers: TLC has no 64-bit integers, so u64 and u32 are modelled as    *)
(* unsigned words of U64Bits and U32Bits bits (U32Bits < U64Bits); all     *)
(* arithmetic of the source is done modulo the word size as Rust does it.  *)
(* Arithmetic overflow panics in a build with overflow checks (debug) and  *)
(* wraps in one without (release): overflow_checks is fixed by Init.  A    *)
(* panic ends the only thread: pc stays at one of PanicPcs.                *)
(***************************************************************************)
EXTENDS Integers, Sequences, FiniteSets, TLC

\* ------------------------------------------------------------------ bounds
U64Bits == 13          \* width of the model's u64
U32Bits == 12          \* width of the model's u32
MaxSessions == 2       \* entries in the session table
MaxTime == 2           \* clock values and device access times are 0..MaxTime
MaxEvents == 2         \* events received by one recv_events call
MaxSeats == 1          \* seats advertised by the compositor
MaxConns == 2          \* connections opened in one behaviour
MaxEpisodeSpawns == 2  \* cap of the per-episode spawn counter

\* --------------------------------------------------------------- constants
U64Mod == 2 ^ U64Bits
U64Max == U64Mod - 1                 \* u64::MAX
U32Mod == 2 ^ U32Bits
MsPerSec == 1000                     \* the factor of line 280
LastProbe == 9                       \* `for i in 1..10`
ProbeRange == 1 .. LastProbe

\* the sets of sockets /var/run/user/<uid>/wayland-<i> that a probe may find
SocketSets == {{}, {2, 3}, {LastProbe}}

\* the idle timeouts (-t) tried: a small one and the largest u64 (which does
\* not fit the u32 and whose millisecond value overflows)
Thresholds == {1, U64Max}

Times == 0 .. MaxTime

\* ------------------------------------------------------------------ values
\* results of a computation that panicked, and where the thread then is
PanicUnwrap == -1      \* fs::metadata(..).unwrap() on an Err
PanicOverflow == -2    \* arithmetic overflow in a build with overflow checks

IsPanic(r) == r < 0

PanicPc(r) == IF r = PanicUnwrap THEN "panic_unwrap" ELSE "panic_overflow"

PanicPcs == {"panic_expect", "panic_unwrap", "panic_overflow"}

\* enum WaylandState: Disabled, or Enabled((Connection<State>, State)).
\* conn is the identity of the connection, idle is State.idle, seats the
\* number of seats in State.seats, notifier whether the idle notifier is bound
\* on the connection, subs the number of idle notifications registered on it
\* and timeout their timeout in milliseconds.
Disabled ==
  [tag |-> "Disabled", conn |-> 0, idle |-> FALSE, seats |-> 0, notifier |-> FALSE,
   subs |-> 0, timeout |-> 0]

Enabled(c, i, s, b, n, t) ==
  [tag |-> "Enabled", conn |-> c, idle |-> i, seats |-> s, notifier |-> b,
   subs |-> n, timeout |-> t]

\* the utmp entries: only UtmpEntry::UserProcess{line,..} is looked at; dev_ok
\* says whether fs::metadata("/dev/<line>") succeeds and atime is its atime
OtherEntry == [kind |-> "Other", dev_ok |-> TRUE, atime |-> 0]

UserProcess(ok, a) == [kind |-> "UserProcess", dev_ok |-> ok, atime |-> a]

Entries ==
  {OtherEntry, UserProcess(FALSE, 0)} \cup {UserProcess(TRUE, a) : a \in Times}

SeqsUpTo(S, n) == UNION {[1 .. k -> S] : k \in 0 .. n}

EntrySeqs == SeqsUpTo(Entries, MaxSessions)

\* ext_idle_notification_v1::Event as seen by way_idle_cb; "Other" is every
\* event that is not delivered to way_idle_cb with Idled or Resumed
Events == {"Idled", "Resumed", "Other"}

EventSeqs == SeqsUpTo(Events, MaxEvents)

IoResults == {"Ok", "WouldBlock", "Error"}

VARIABLES
  pc,               \* position of the thread in main()
  overflow_checks,  \* the build panics on arithmetic overflow
  idle_limit,       \* main: idle_limit
  wayland_idle,     \* main: wayland_idle
  wayland,          \* main: wayland
  most_active,      \* main: most_active
  wayland_error,    \* main: wayland_error
  entries,          \* main: entries, in scope in the `if let` of line 118
  now,              \* main: now, in scope in the `if let` of line 118
  queue,            \* events received by the connection, not yet dispatched
  env_display,      \* WAYLAND_DISPLAY: 0 unset, i for "wayland-i"
  sockets,          \* wayland_connect: the wayland-<i> that exist during the probe
  probes,           \* wayland_connect: the indices i probed by the `for` of line 224
  conn,             \* wayland_connect: conn (0: not yet connected)
  state,            \* wayland_connect: state
  notifier,         \* wayland_connect: idle_notifier is bound
  ret,              \* value returned by wayland_connect
  next_conn,        \* identity of the next connection to be opened
  live,             \* the connections that exist (opened, not yet dropped)
  \* history of the current tick and of the behaviour
  spawned,          \* Command::spawn in this tick: "none", "ok", "failed"
  unavailable,      \* this tick's session table was unreadable or had no user process
  linked_at_service,\* wayland was Enabled at this tick's `match wayland`
  flush_result,     \* result of conn.flush, until conn.recv_events is called
  recv_result,      \* result of conn.recv_events, until the events are dispatched
  stage_failed,     \* stage at which wayland_connect returns Disabled
  ever_linked,      \* wayland has been Enabled at some point
  episode_spawns,   \* spawns in the current run of ticks with fire true
  episode_ended     \* a run of ticks with fire true and a spawn has ended

vars ==
  <<pc, overflow_checks, idle_limit, wayland_idle, wayland, most_active,
    wayland_error, entries, now, queue, env_display, sockets, probes, conn,
    state, notifier,
    ret, next_conn, live, spawned, unavailable, linked_at_service,
    flush_result, recv_result, stage_failed, ever_linked, episode_spawns,
    episode_ended>>

\* -------------------------------------------------------- pure computations
Min(S) == CHOOSE x \in S : \A y \in S : x <= y

\* line 126: now - atime as u64
IdleTime(n, atime, checks) ==
  IF atime <= n THEN n - atime
  ELSE IF checks THEN PanicOverflow
  ELSE (n - atime) % U64Mod

\* lines 121-134: the `for entry in entries` loop, started with most_active = acc
RECURSIVE ScanEntries(_, _, _, _)
ScanEntries(es, n, acc, checks) ==
  IF es = <<>> THEN acc
  ELSE LET e == Head(es) IN
    IF e.kind # "UserProcess" THEN ScanEntries(Tail(es), n, acc, checks)
    ELSE IF ~e.dev_ok THEN PanicUnwrap
    ELSE LET idle_time == IdleTime(n, e.atime, checks) IN
      IF IsPanic(idle_time) THEN idle_time
      ELSE ScanEntries(Tail(es), n, IF idle_time < acc THEN idle_time ELSE acc, checks)

HasUserProcess(es) == \E i \in 1 .. Len(es) : es[i].kind = "UserProcess"

\* way_idle_cb whose catch-all arm clears State.idle
way_idle_cb_clear(idle, e) ==
  CASE e = "Idled" -> TRUE
    [] e = "Resumed" -> FALSE
    [] OTHER -> FALSE

\* lines 190-205: way_idle_cb applied to State.idle
way_idle_cb(idle, e) ==
  CASE e = "Idled" -> TRUE
    [] e = "Resumed" -> FALSE
    [] OTHER -> idle

\* line 152: conn.dispatch_events(state) on the queued events
RECURSIVE DispatchEvents(_, _)
DispatchEvents(q, idle) ==
  IF q = <<>> THEN idle ELSE DispatchEvents(Tail(q), way_idle_cb(idle, Head(q)))

\* line 67: let mut wayland_idle: bool = false
InitialWaylandIdleSet == TRUE

InitialWaylandIdle == FALSE

\* line 116: let mut most_active: u64 = u64::MAX
InitialMostActive32 == U32Mod - 1

InitialMostActive == U64Max

\* lines 143-148: the receive errors that set wayland_error
IsFatalAny(rr) == rr # "Ok"

IsFatal(rr) == rr = "Error"

\* lines 224-235: the indices probed, in order, when the sockets S exist: the
\* loop goes on from index i and breaks at the first index that exists
RECURSIVE ProbeFrom(_, _)
ProbeFrom(i, S) ==
  IF i > LastProbe THEN <<>>
  ELSE IF i \in S THEN <<i>>
  ELSE <<i>> \o ProbeFrom(i + 1, S)

\* the probe loop started at wayland-0
ProbeSocketsFromZero(S) == ProbeFrom(0, S)

\* line 224: for i in 1..10
ProbeSockets(S) == ProbeFrom(1, S)

\* a State that starts as idle
NewStateIdle == [idle |-> TRUE, seats |-> 0]

\* lines 255-258: State { idle: false, seats: vec![] }
NewState == [idle |-> FALSE, seats |-> 0]

\* line 166: the condition of the `if`
FireEither(ma, limit, widle) == ma > limit \/ widle = TRUE

Fire(ma, limit, widle) == ma > limit /\ widle = TRUE

\* line 280: idle_limit as u32 * 1000
TimeoutMs(limit, checks) ==
  LET t == limit % U32Mod IN
    IF t * MsPerSec < U32Mod THEN t * MsPerSec
    ELSE IF checks THEN PanicOverflow
    ELSE (t * MsPerSec) % U32Mod

\* ------------------------------------------------------------------- Init
Init ==
  /\ pc = "sample"
  /\ overflow_checks \in BOOLEAN
  /\ idle_limit \in Thresholds
  /\ wayland_idle = InitialWaylandIdle
  /\ wayland = Disabled
  /\ most_active = InitialMostActive
  /\ wayland_error = FALSE
  /\ entries = <<>>
  /\ now = 0
  /\ queue = <<>>
  /\ env_display \in {0, 2}
  /\ sockets = {}
  /\ probes = <<>>
  /\ conn = 0
  /\ state = [idle |-> FALSE, seats |-> 0]
  /\ notifier = FALSE
  /\ ret = Disabled
  /\ next_conn = 1
  /\ live = {}
  /\ spawned = "none"
  /\ unavailable = FALSE
  /\ linked_at_service = FALSE
  /\ flush_result = "none"
  /\ recv_result = "none"
  /\ stage_failed = "none"
  /\ ever_linked = FALSE
  /\ episode_spawns = 0
  /\ episode_ended = FALSE

\* what a step leaves alone
MainLocals == <<wayland_idle, wayland, most_active, wayland_error>>
SampleLocals == <<entries, now>>
ConnectLocals == <<conn, state, notifier, ret, stage_failed>>
ProbeLocals == <<sockets, probes>>
Links == <<queue, env_display, next_conn, live, ever_linked>>
ServiceHistory == <<linked_at_service, flush_result, recv_result>>
FusionHistory == <<spawned, episode_spawns, episode_ended>>
Config == <<overflow_checks, idle_limit>>

\* ---------------------------------------------------------------- sampler
\* lines 115-119: start of a tick; read the session table and the clock
Sample ==
  /\ pc = "sample"
  /\ most_active' = InitialMostActive
  /\ spawned' = "none"
  /\ \/ \* parse_from_path returns Err
        /\ pc' = "service"
        /\ unavailable' = TRUE
        /\ UNCHANGED SampleLocals
     \/ \* the clock is before the epoch: expect panics
        /\ pc' = "panic_expect"
        /\ UNCHANGED <<unavailable, SampleLocals>>
     \/ \E es \in EntrySeqs, n \in Times :
          /\ pc' = "scan"
          /\ entries' = es
          /\ now' = n
          /\ unavailable' = ~HasUserProcess(es)
  /\ UNCHANGED <<Config, ProbeLocals, wayland_idle, wayland, wayland_error, ConnectLocals, Links,
                 ServiceHistory, episode_spawns, episode_ended>>

\* lines 121-135: the loop over the entries
Scan ==
  /\ pc = "scan"
  /\ LET r == ScanEntries(entries, now, most_active, overflow_checks) IN
       IF IsPanic(r)
       THEN /\ pc' = PanicPc(r)
            /\ UNCHANGED most_active
       ELSE /\ pc' = "service"
            /\ most_active' = r
  /\ entries' = <<>>
  /\ now' = 0
  /\ UNCHANGED <<Config, ProbeLocals, wayland_idle, wayland, wayland_error, ConnectLocals, Links,
                 ServiceHistory, FusionHistory, unavailable>>

\* ------------------------------------------------------- servicing the link
\* lines 137-141 and 155-157: wayland_error, `match wayland` and, when
\* Enabled, conn.flush, whose result is dropped by `let _ =`
Service ==
  /\ pc = "service"
  /\ IF wayland.tag = "Enabled"
     THEN /\ \E fr \in IoResults : flush_result' = fr
          /\ wayland_error' = FALSE
          /\ linked_at_service' = TRUE
          /\ pc' = "recv"
     ELSE /\ wayland_error' = TRUE
          /\ flush_result' = "none"
          /\ linked_at_service' = FALSE
          /\ pc' = "resolve"
  /\ UNCHANGED <<Config, ProbeLocals, wayland_idle, wayland, most_active, SampleLocals, ConnectLocals,
                 Links, recv_result, FusionHistory, unavailable>>

\* line 142: recv_events reports WouldBlock when it read no message, Ok after
\* at least one, and an error possibly after some messages
RecvOutcomes(rr) ==
  CASE rr = "WouldBlock" -> {<<>>}
    [] rr = "Ok" -> EventSeqs \ {<<>>}
    [] OTHER -> EventSeqs

\* lines 142-150: conn.recv_events and the test of its error
Recv ==
  /\ pc = "recv"
  /\ \E rr \in IoResults :
       \E evs \in RecvOutcomes(rr) :
         /\ recv_result' = rr
         /\ queue' = evs
         /\ wayland_error' = (wayland_error \/ IsFatal(rr))
  /\ flush_result' = "none"
  /\ pc' = "dispatch"
  /\ UNCHANGED <<Config, ProbeLocals, wayland_idle, wayland, most_active, SampleLocals, ConnectLocals,
                 env_display, next_conn, live, ever_linked, linked_at_service,
                 FusionHistory, unavailable>>

\* lines 152-153 and the test of line 162
Dispatch ==
  /\ pc = "dispatch"
  /\ LET idle == DispatchEvents(queue, wayland.idle) IN
       /\ wayland' = [wayland EXCEPT !.idle = idle]
       /\ wayland_idle' = idle
  /\ queue' = <<>>
  /\ recv_result' = "none"
  /\ pc' = IF wayland_error = TRUE THEN "resolve" ELSE "fusion"
  /\ UNCHANGED <<Config, ProbeLocals, most_active, wayland_error, SampleLocals, ConnectLocals,
                 env_display, next_conn, live, ever_linked, linked_at_service,
                 flush_result, FusionHistory, unavailable>>

\* -------------------------------------------------------- wayland_connect
\* wayland_connect returns Disabled from stage st and keeps the connection it
\* opened alive
ReturnDisabledLeak(st) ==
  /\ ret' = Disabled
  /\ stage_failed' = st
  /\ live' = live
  /\ conn' = 0
  /\ notifier' = FALSE
  /\ state' = [idle |-> FALSE, seats |-> 0]
  /\ pc' = "assign"

\* wayland_connect returns Disabled from stage st; the connection it opened,
\* if any, is dropped with its locals
ReturnDisabled(st) ==
  /\ ret' = Disabled
  /\ stage_failed' = st
  /\ live' = live \ {conn}
  /\ conn' = 0
  /\ notifier' = FALSE
  /\ state' = [idle |-> FALSE, seats |-> 0]
  /\ pc' = "assign"

\* lines 211-241: WAYLAND_DISPLAY, or the first of wayland-1 .. wayland-9
Resolve ==
  /\ pc = "resolve"
  /\ IF env_display # 0
     THEN /\ pc' = "open"
          /\ UNCHANGED <<env_display, ProbeLocals, ConnectLocals, live>>
     ELSE \E S \in SocketSets :
            LET tried == ProbeSockets(S)
                found == tried # <<>> /\ tried[Len(tried)] \in S
            IN /\ sockets' = S
               /\ probes' = tried
               /\ IF found = FALSE
                  THEN /\ ReturnDisabled("resolve")
                       /\ UNCHANGED env_display
                  ELSE /\ env_display' = tried[Len(tried)]
                       /\ pc' = "open"
                       /\ UNCHANGED <<ConnectLocals, live>>
  /\ UNCHANGED <<Config, MainLocals, SampleLocals, queue, next_conn, ever_linked,
                 ServiceHistory, FusionHistory, unavailable>>

\* lines 243-258: Connection::connect_and_collect_globals and the new State
Open ==
  /\ pc = "open"
  /\ sockets' = {}
  /\ probes' = <<>>
  /\ \E ok \in BOOLEAN :
       IF ok /\ next_conn <= MaxConns
       THEN /\ conn' = next_conn
            /\ next_conn' = next_conn + 1
            /\ live' = live \cup {next_conn}
            /\ state' = NewState
            /\ pc' = "roundtrip"
            /\ UNCHANGED <<notifier, ret, stage_failed>>
       ELSE /\ ReturnDisabled("open")
            /\ UNCHANGED next_conn
  /\ UNCHANGED <<Config, MainLocals, SampleLocals, queue, env_display, ever_linked,
                 ServiceHistory, FusionHistory, unavailable>>

\* lines 260-268: blocking_roundtrip, then the seats are dispatched into state
Roundtrip ==
  /\ pc = "roundtrip"
  /\ \E ok \in BOOLEAN, n \in 0 .. MaxSeats :
       IF ok
       THEN /\ state' = [state EXCEPT !.seats = n]
            /\ pc' = "bind"
            /\ UNCHANGED <<conn, notifier, ret, stage_failed, live>>
       ELSE ReturnDisabled("roundtrip")
  /\ UNCHANGED <<Config, ProbeLocals, MainLocals, SampleLocals, queue, env_display, next_conn,
                 ever_linked, ServiceHistory, FusionHistory, unavailable>>

\* Bind that reports the failure and goes on to subscribe
BindIgnoreError ==
  /\ pc = "bind"
  /\ \E ok \in BOOLEAN :
       IF ok
       THEN /\ notifier' = TRUE
            /\ pc' = "subscribe"
            /\ UNCHANGED <<conn, state, ret, stage_failed, live>>
       ELSE /\ stage_failed' = "bind"
            /\ pc' = "subscribe"
            /\ UNCHANGED <<conn, state, ret, notifier, live>>
  /\ UNCHANGED <<Config, ProbeLocals, MainLocals, SampleLocals, queue, env_display, next_conn,
                 ever_linked, ServiceHistory, FusionHistory, unavailable>>

\* lines 270-277: globals.bind::<ExtIdleNotifierV1, _>
Bind ==
  /\ pc = "bind"
  /\ \E ok \in BOOLEAN :
       IF ok
       THEN /\ notifier' = TRUE
            /\ pc' = "subscribe"
            /\ UNCHANGED <<conn, state, ret, stage_failed, live>>
       ELSE ReturnDisabled("bind")
  /\ UNCHANGED <<Config, ProbeLocals, MainLocals, SampleLocals, queue, env_display, next_conn,
                 ever_linked, ServiceHistory, FusionHistory, unavailable>>

\* lines 279-283: one idle notification per seat, then Enabled((conn, state))
Subscribe ==
  /\ pc = "subscribe"
  /\ LET t == IF state.seats = 0 THEN 0 ELSE TimeoutMs(idle_limit, overflow_checks) IN
       IF IsPanic(t)
       THEN /\ pc' = PanicPc(t)
            /\ UNCHANGED ConnectLocals
       ELSE /\ ret' = Enabled(conn, state.idle, state.seats, notifier, state.seats, t)
            /\ conn' = 0
            /\ notifier' = FALSE
            /\ state' = [idle |-> FALSE, seats |-> 0]
            /\ pc' = "assign"
            /\ UNCHANGED stage_failed
  /\ UNCHANGED <<Config, ProbeLocals, MainLocals, SampleLocals, Links, ServiceHistory,
                 FusionHistory, unavailable>>

\* Assign that keeps the connection of the old value alive
AssignLeak ==
  /\ pc = "assign"
  /\ wayland' = ret
  /\ sockets' = {}
  /\ probes' = <<>>
  /\ ret' = Disabled
  /\ stage_failed' = "none"
  /\ ever_linked' = (ever_linked \/ ret.tag = "Enabled")
  /\ pc' = "fusion"
  /\ UNCHANGED <<Config, wayland_idle, most_active, wayland_error, SampleLocals,
                 conn, state, notifier, queue, env_display, next_conn, live,
                 ServiceHistory, FusionHistory, unavailable>>

\* line 163: wayland = wayland_connect(idle_limit); the old value is dropped
Assign ==
  /\ pc = "assign"
  /\ wayland' = ret
  /\ sockets' = {}
  /\ probes' = <<>>
  /\ live' = live \ {wayland.conn}
  /\ ret' = Disabled
  /\ stage_failed' = "none"
  /\ ever_linked' = (ever_linked \/ ret.tag = "Enabled")
  /\ pc' = "fusion"
  /\ UNCHANGED <<Config, wayland_idle, most_active, wayland_error, SampleLocals,
                 conn, state, notifier, queue, env_display, next_conn,
                 ServiceHistory, FusionHistory, unavailable>>

\* ----------------------------------------------------------------- fusion
\* Fusion with a trigger latch that is set by the first spawn and never cleared
FusionNoRearm ==
  /\ pc = "fusion"
  /\ IF Fire(most_active, idle_limit, wayland_idle)
     THEN /\ wayland_idle' = FALSE
          /\ IF episode_spawns = 0 /\ ~episode_ended
             THEN \E ok \in BOOLEAN : spawned' = IF ok THEN "ok" ELSE "failed"
             ELSE UNCHANGED spawned
          /\ episode_spawns' =
               IF episode_spawns < MaxEpisodeSpawns THEN episode_spawns + 1
               ELSE episode_spawns
          /\ UNCHANGED episode_ended
     ELSE /\ episode_spawns' = 0
          /\ episode_ended' = (episode_ended \/ episode_spawns > 0)
          /\ UNCHANGED <<wayland_idle, spawned>>
  /\ pc' = "sleep"
  /\ UNCHANGED <<Config, ProbeLocals, wayland, most_active, wayland_error, SampleLocals,
                 ConnectLocals, Links, ServiceHistory, unavailable>>

\* lines 166-184: the fusion rule and the spawn of the idle command
Fusion ==
  /\ pc = "fusion"
  /\ IF Fire(most_active, idle_limit, wayland_idle)
     THEN /\ wayland_idle' = FALSE
          /\ \E ok \in BOOLEAN : spawned' = IF ok THEN "ok" ELSE "failed"
          /\ episode_spawns' =
               IF episode_spawns < MaxEpisodeSpawns THEN episode_spawns + 1
               ELSE episode_spawns
          /\ UNCHANGED episode_ended
     ELSE /\ episode_spawns' = 0
          /\ episode_ended' = (episode_ended \/ episode_spawns > 0)
          /\ UNCHANGED <<wayland_idle, spawned>>
  /\ pc' = "sleep"
  /\ UNCHANGED <<Config, ProbeLocals, wayland, most_active, wayland_error, SampleLocals,
                 ConnectLocals, Links, ServiceHistory, unavailable>>

\* line 186: sleep, then the next iteration
Sleep ==
  /\ pc = "sleep"
  /\ pc' = "sample"
  /\ UNCHANGED <<Config, ProbeLocals, MainLocals, SampleLocals, ConnectLocals, Links,
                 ServiceHistory, FusionHistory, unavailable>>

Next ==
  \/ Sample
  \/ Scan
  \/ Service
  \/ Recv
  \/ Dispatch
  \/ Resolve
  \/ Open
  \/ Roundtrip
  \/ Bind
  \/ Subscribe
  \/ Assign
  \/ Fusion
  \/ Sleep

Spec == Init /\ [][Next]_vars

\* lines 115-188: `loop` has no exit and every step of an iteration returns
\* (the sleep of line 186 is finite), so a step that can be taken is taken
FairSpec == Spec /\ WF_vars(Next)

\* ================================================================= claims

\* C1: the action command is spawned at most once per idle episode (a maximal
\* run of consecutive ticks in which the fusion rule evaluates true); while
\* the link stays Linked with its idle flag true and the session idle time
\* stays above the threshold, no second spawn happens.
C1_AtMostOneSpawnPerEpisode == episode_spawns <= 1

\* C2: in every tick the action command is spawned exactly when the tick's
\* minimum session idle time is strictly greater than the threshold and the
\* tick's graphical idle value is true, and never when either is false.
C2_FusionRule ==
  [][pc = "fusion" =>
       ((spawned' # "none") <=> (most_active > idle_limit /\ wayland_idle))]_vars

C2_Witness == pc = "sleep" /\ spawned = "ok" /\ most_active > idle_limit

\* C3: in a tick in which the supervisor is Unlinked at the service step and
\* still Unlinked after the reconnect attempt, the graphical idle value used
\* by the fusion rule is false, so the action is not spawned in that tick,
\* also after a Linked -> Unlinked demotion in which the last known idle flag
\* was true.
C3_UnlinkedNeverSpawns ==
  (pc = "sleep" /\ ~linked_at_service /\ wayland.tag = "Disabled") => spawned = "none"

\* C4: as long as no connect attempt has ever succeeded, the graphical idle
\* value is false and the action is not spawned, however far the session
\* idle time exceeds the threshold.
C4_NeverLinkedNeverFires ==
  ~ever_linked => (~wayland_idle /\ spawned = "none" /\ episode_spawns = 0)

C4_Witness ==
  /\ pc = "sleep"
  /\ ~ever_linked
  /\ wayland_error
  /\ wayland.tag = "Disabled"
  /\ most_active > idle_limit

\* C5: after an idle episode with a spawn has ended, a tick in which the link
\* was serviced without error, its idle flag is true and the session idle
\* time exceeds the threshold spawns the action again.
C5_RespawnAfterEpisodeEnd ==
  [][(/\ pc = "fusion"
      /\ episode_ended
      /\ wayland.tag = "Enabled"
      /\ ~wayland_error
      /\ wayland.idle
      /\ most_active > idle_limit) => spawned' # "none"]_vars

C5_Witness ==
  /\ pc = "sleep"
  /\ episode_ended
  /\ wayland.tag = "Enabled"
  /\ ~wayland_error
  /\ wayland.idle
  /\ spawned = "ok"

\* C6: when the session table cannot be read or holds no user process, the
\* tick's session sample is the "unavailable" value u64::MAX, it compares as
\* greater than every configured threshold, and the action is spawned in
\* that tick only if the graphical idle value is true.
C6_UnavailableExceedsEveryThreshold ==
  [][(pc = "fusion" /\ unavailable) =>
       /\ most_active = U64Max
       /\ most_active > idle_limit
       /\ (spawned' # "none") => wayland_idle]_vars

\* C6 as amended: the unavailable sample u64::MAX is greater than every
\* threshold below u64::MAX (and not greater than the threshold u64::MAX);
\* the action is spawned in that tick only if the graphical idle value is
\* true.
C6_UnavailableExceedsSmallerThresholds ==
  [][(pc = "fusion" /\ unavailable) =>
       /\ most_active = U64Max
       /\ (most_active > idle_limit) <=> (idle_limit < U64Max)
       /\ (spawned' # "none") => wayland_idle]_vars

C6_Witness ==
  pc = "sleep" /\ unavailable /\ spawned = "ok" /\ idle_limit < U64Max

\* C7: wayland_connect returns Enabled only if every stage succeeded, and then
\* with a live connection, the idle notifier bound and one idle notification
\* per seat; if a stage failed it returns Disabled and no connection of the
\* attempt is left.
C7_LinkedOnlyIfEveryStage ==
  pc = "assign" =>
    /\ (ret.tag = "Enabled") <=> (stage_failed = "none")
    /\ (ret.tag = "Enabled") =>
          /\ ret.conn \in live
          /\ ret.notifier
          /\ ret.subs = ret.seats
          /\ env_display # 0
    /\ (ret.tag = "Disabled") =>
          /\ ret = Disabled
          /\ conn = 0
          /\ live \subseteq {wayland.conn}

C7_Witness ==
  pc = "assign" /\ stage_failed = "bind" /\ ret.tag = "Disabled" /\ next_conn > 1

\* C8: when the link was Linked and the receive step returned an error other
\* than would-block, the supervisor is Unlinked when the next tick's service
\* step begins.
C8_UnlinkedAtNextService ==
  (pc = "service" /\ linked_at_service /\ wayland_error) => wayland.tag = "Disabled"

\* C8 as amended: the failed connection is discarded and a reconnect is
\* attempted in the same tick; when the next tick's service step begins the
\* supervisor is either Unlinked or Linked with a new connection, and the
\* failed connection no longer exists.
C8_DiscardedAtNextService ==
  /\ []((pc = "service" /\ linked_at_service /\ wayland_error) =>
          live = IF wayland.tag = "Enabled" THEN {wayland.conn} ELSE {})
  /\ [][(pc = "assign" /\ linked_at_service) =>
          /\ wayland.conn \notin live'
          /\ wayland'.conn # wayland.conn
          /\ wayland' = ret]_vars

C8_Witness ==
  pc = "service" /\ linked_at_service /\ wayland_error /\ wayland.tag = "Enabled"

\* C9: when the link is Linked and the receive step returns would-block, the
\* supervisor stays Linked with the same connection and the same idle flag
\* and no reconnect is attempted in that tick.
C9_WouldBlockKeepsLink ==
  [][(recv_result = "WouldBlock" \/ recv_result' = "WouldBlock") =>
       /\ wayland' = wayland
       /\ wayland.tag = "Enabled"
       /\ ~wayland_error'
       /\ next_conn' = next_conn
       /\ pc' \in {"dispatch", "fusion"}]_vars

C9_Witness ==
  pc = "dispatch" /\ recv_result = "WouldBlock" /\ wayland.idle

\* C10: no runtime error terminates the polling loop: whatever the session
\* table read, a device metadata read, the flush and receive, a connect
\* attempt or the spawn return, the tick reaches its sleep; in particular the
\* thread never panics on the result of a device metadata read.
C10_LoopNeverTerminates == pc # "panic_unwrap"

\* C11: if the metadata of one session's device cannot be read, that session
\* is skipped: the scan ends normally and the tick's session sample is the
\* minimum idle time over the user-process sessions whose device was read
\* (u64::MAX if there is none).
C11_UnreadableDeviceIsSkipped ==
  [][(/\ pc = "scan"
      /\ \E i \in 1 .. Len(entries) :
           entries[i].kind = "UserProcess" /\ ~entries[i].dev_ok
      /\ \A i \in 1 .. Len(entries) :
           entries[i].kind = "UserProcess" => entries[i].atime <= now) =>
       LET read == {i \in 1 .. Len(entries) :
                     entries[i].kind = "UserProcess" /\ entries[i].dev_ok}
       IN /\ pc' = "service"
          /\ most_active' = Min({U64Max} \cup {now - entries[i].atime : i \in read})]_vars

\* C12: endpoint resolution of a connect attempt: if WAYLAND_DISPLAY is set it
\* is used and nothing is probed; otherwise wayland-1 .. wayland-9 are probed
\* in ascending order up to the first that exists, which is stored in
\* WAYLAND_DISPLAY; if none exists the attempt returns Disabled without
\* opening a connection and without ending the process.
C12_EndpointResolution ==
  [][pc = "resolve" =>
       IF env_display # 0
       THEN /\ env_display' = env_display
            /\ probes' = <<>>
            /\ pc' = "open"
       ELSE LET cand == sockets' \cap ProbeRange
                last == IF cand = {} THEN LastProbe ELSE Min(cand)
            IN /\ probes' = [i \in 1 .. last |-> i]
               /\ IF cand = {}
                  THEN /\ env_display' = 0
                       /\ ret' = Disabled
                       /\ pc' = "assign"
                       /\ next_conn' = next_conn
                       /\ live' = live
                  ELSE /\ env_display' = Min(cand)
                       /\ pc' = "open"]_vars

C12_Witness ==
  pc = "open" /\ sockets = {2, 3} /\ probes = <<1, 2>> /\ env_display = 2

\* C13 (as stated): at every point of every execution at most one connection
\* is alive; during a reconnect the old one is released before or as the new
\* one is created.
C13_AtMostOneConnection == Cardinality(live) <= 1

\* C13 (amended): the supervisor owns at most one connection, and while the
\* loop runs outside a connect attempt the live connections are exactly the
\* one it owns; during a
\* connect attempt the only other live connection is the one the attempt has
\* opened (held by the attempt or by its result), so at most two are alive,
\* and after the assignment of line 163 only the new one is.
C13_AtMostOneOwnedConnection ==
  LET owned == IF wayland.tag = "Enabled" THEN {wayland.conn} ELSE {}
      opened == IF ret.tag = "Enabled" THEN {ret.conn}
                ELSE IF conn # 0 THEN {conn} ELSE {}
      connecting ==
        pc \in {"resolve", "open", "roundtrip", "bind", "subscribe", "assign"}
  IN /\ Cardinality(live) <= 2
     /\ owned \subseteq live
     /\ live \subseteq owned \cup opened
     /\ (~connecting /\ pc \notin PanicPcs) => live = owned

C13_Witness ==
  /\ pc = "roundtrip"
  /\ wayland.tag = "Enabled"
  /\ wayland_error = TRUE
  /\ live = {wayland.conn, conn}
  /\ Cardinality(live) = 2

\* C14: the fusion decision of a tick uses only values produced in that tick:
\* in a tick whose service step found the supervisor Unlinked no graphical
\* idle value is produced, so the value the fusion rule evaluates is not an
\* idle report left by an earlier tick or by a discarded connection.
C14_FusionUsesOnlyThisTick ==
  (pc = "fusion" /\ ~linked_at_service) => wayland_idle = FALSE

\* C15: the idle flag of the Linked link changes only in the dispatch of a
\* service call, where it becomes what the dispatched events say (Idled sets
\* it, Resumed clears it, any other event leaves it as it is, so it ends as
\* the last Idled or Resumed says, or unchanged if there is none); the fusion
\* step, spawning or not, leaves the link and its flag unchanged.
C15_IdleFlagOnlyByCallbacks ==
  [][(wayland.tag = "Enabled" /\ wayland'.tag = "Enabled"
        /\ wayland'.conn = wayland.conn) =>
       LET IsSignal(e) == e \in {"Idled", "Resumed"}
           signals == SelectSeq(queue, IsSignal)
       IN /\ wayland'.idle # wayland.idle => pc = "dispatch"
          /\ pc = "dispatch" =>
               wayland'.idle = IF signals = <<>> THEN wayland.idle
                               ELSE signals[Len(signals)] = "Idled"
          /\ pc = "fusion" => wayland' = wayland]_vars

C15_Witness ==
  /\ pc = "sleep"
  /\ spawned = "ok"
  /\ episode_spawns > 0
  /\ wayland.tag = "Enabled"
  /\ wayland.idle = TRUE
  /\ wayland_idle = FALSE

\* C16: when the flush of a service call failed with an error other than
\* would-block, the service call records the error (so the connection is
\* discarded and a reconnect attempted), whatever the receive step returns.
C16_FlushErrorUnlinks ==
  [][(pc = "recv" /\ flush_result = "Error") => wayland_error' = TRUE]_vars

\* C17: every idle-notification subscription of the Linked link is registered
\* with a timeout of exactly idle_limit * 1000 milliseconds, the mathematical
\* product, for every configured threshold.
C17_TimeoutIsThresholdInMs ==
  (wayland.tag = "Enabled" /\ wayland.subs > 0) =>
    wayland.timeout = idle_limit * MsPerSec

\* C18: when the table and every session device are read, the scan ends
\* normally and the tick's session sample is the minimum over the
\* user-process sessions of the current time minus the last-access time
\* (u64::MAX if there is none); for a last-access time later than the current
\* time the difference is the mathematical one or 0, never a wrapped value
\* and never an abort.
C18_SampleIsMinimumIdleTime ==
  [][(/\ pc = "scan"
      /\ \A i \in 1 .. Len(entries) :
           entries[i].kind = "UserProcess" => entries[i].dev_ok) =>
       LET user == {i \in 1 .. Len(entries) : entries[i].kind = "UserProcess"}
           exact == Min({U64Max} \cup {now - entries[i].atime : i \in user})
           clamped ==
             Min({U64Max} \cup
                 {IF entries[i].atime > now THEN 0 ELSE now - entries[i].atime :
                    i \in user})
       IN /\ pc' = "service"
          /\ most_active' \in {exact, clamped}]_vars

\* C19: every transition to Linked, the first connect or a reconnect, yields
\* a link whose idle flag is false, and the flag of a link that reports not
\* idle becomes true only in a dispatch, on that same connection, of events
\* among which there is an Idled.
C19_NewLinkIsNotIdle ==
  [][/\ (/\ wayland'.tag = "Enabled"
         /\ (wayland.tag # "Enabled" \/ wayland'.conn # wayland.conn)) =>
          (pc = "assign" /\ wayland'.idle = FALSE)
     /\ (/\ wayland.tag = "Enabled" /\ wayland.idle = FALSE
         /\ wayland'.tag = "Enabled" /\ wayland'.idle = TRUE) =>
          /\ pc = "dispatch"
          /\ wayland'.conn = wayland.conn
          /\ \E i \in 1 .. Len(queue) : queue[i] = "Idled"]_vars

C19_Witness ==
  /\ pc = "fusion"
  /\ wayland.tag = "Enabled"
  /\ wayland.conn > 1
  /\ wayland.idle = FALSE
  /\ wayland_idle = TRUE

\* C20: under fair ticking, if from some point on no stage of a connect
\* attempt fails and no receive returns an error other than would-block, the
\* supervisor eventually is Linked and stays Linked forever; stated for the
\* executions in which the clock is read and no arithmetic overflows.
C20_EventuallyLinkedForever ==
  (/\ <>[](stage_failed = "none" /\ recv_result # "Error")
   /\ [](pc \notin {"panic_expect", "panic_overflow"})) =>
    <>[](wayland.tag = "Enabled")

====
